---- MODULE Spec2Model ----
(***************************************************************************)
(* Program Trader: the strategy executor (executor.py), the static code    *)
(* validator (validator.py) and the backtest engine (backtest.py) as one   *)
(* state machine.  One behaviour is one call of BacktestEngine.run: the    *)
(* controlling flow of run and of SandboxExecutor.execute, interleaved     *)
(* with the evaluation threads execute starts.                             *)
(*                                                                         *)
(* Python floats are modelled as exact rationals [n, d] (d > 0, lowest     *)
(* terms); an optional value is None or Some(v).                           *)
(***************************************************************************)
EXTENDS Integers, Sequences, FiniteSets, TLC

None == <<>>
Some(v) == <<v>>
Val(o) == o[1]

-----------------------------------------------------------------------------
(* Bounds of the model *)

\* the longest kline series given to run
MaxBars == 52
\* the longest trade log given to _calculate_metrics directly
MaxTrades == 3
\* the most nodes of a syntax tree given to the validator directly
MaxNodes == 3

(* Program constants *)

\* backtest.py:128  for i in range(50, len(kline_data))
WarmUp == 50
\* backtest.py:112  if len(kline_data) < 10
MinBars == 10
\* backtest.py:125  SandboxExecutor(timeout_seconds=2)
timeout_seconds == 2

-----------------------------------------------------------------------------
(* Exact arithmetic standing for Python's float arithmetic *)

Abs(x) == IF x < 0 THEN -x ELSE x

RECURSIVE GCD(_, _)
GCD(a, b) == IF b = 0 THEN a ELSE GCD(b, a % b)

\* the rational n/d (d # 0) in lowest terms with a positive denominator
Rat(n, d) ==
  LET g == GCD(Abs(n), Abs(d))
      s == IF d < 0 THEN -1 ELSE 1
  IN  [n |-> s * (n \div g), d |-> s * (d \div g)]

RInt(k) == [n |-> k, d |-> 1]
\* the operations cancel common factors before they multiply, so that the
\* intermediate products stay small
RAdd(a, b) ==
  LET g == GCD(a.d, b.d)
  IN  Rat(a.n * (b.d \div g) + b.n * (a.d \div g), (a.d \div g) * b.d)
RNeg(a) == [n |-> -a.n, d |-> a.d]
RSub(a, b) == RAdd(a, RNeg(b))
RMul(a, b) ==
  LET x == Rat(a.n, b.d)
      y == Rat(b.n, a.d)
  IN  Rat(x.n * y.n, x.d * y.d)
RDiv(a, b) == RMul(a, Rat(b.d, b.n))
RLt(a, b) ==
  LET g == GCD(a.d, b.d)
  IN  a.n * (b.d \div g) < b.n * (a.d \div g)
RLe(a, b) == ~RLt(b, a)
RMin(a, b) == IF RLt(b, a) THEN b ELSE a
RZero == RInt(0)

-----------------------------------------------------------------------------
(* validator.py: the static validator over an abstract syntax tree.        *)
(* A source text is [syntax_ok, nodes]: nodes is the tree in ast.walk      *)
(* order, each node an Import (names: dotted module names as sequences of  *)
(* components), an ImportFrom (module, empty when absent), a Call (func:    *)
(* Some(name), or None when the callee is no plain name) or a ClassDef     *)
(* (methods:                                                               *)
(* the FunctionDefs of its body, each [name, nargs]).  An error message is  *)
(* a sequence of strings: its text, then the name it reports.              *)

FORBIDDEN_IMPORTS ==
  {"os", "sys", "subprocess", "shutil", "pathlib", "socket", "requests",
   "urllib", "http", "pickle", "marshal", "shelve", "ctypes",
   "multiprocessing", "threading", "importlib", "builtins", "__builtins__"}

FORBIDDEN_FUNCTIONS ==
  {"eval", "exec", "compile", "open", "input", "__import__", "globals",
   "locals", "vars", "getattr", "setattr", "delattr", "hasattr",
   "breakpoint", "exit", "quit"}

RECURSIVE Flatten(_)
Flatten(ss) == IF ss = <<>> THEN <<>> ELSE Head(ss) \o Flatten(Tail(ss))

\* the errors one node adds (validator.py:92-110)
NodeSecurityErrors(node) ==
  IF node.kind = "Import" THEN
    LET bad(name) == name[1] \in FORBIDDEN_IMPORTS
        hits == SelectSeq(node.names, bad)
    IN  [k \in 1..Len(hits) |-> <<"Forbidden import">> \o hits[k]]
  ELSE IF node.kind = "ImportFrom" THEN
    IF node.module # None /\ node.module[1] \in FORBIDDEN_IMPORTS
    THEN << <<"Forbidden import">> \o node.module >> ELSE <<>>
  ELSE IF node.kind = "Call" THEN
    IF node.func # None /\ Val(node.func) \in FORBIDDEN_FUNCTIONS
    THEN << <<"Forbidden function", Val(node.func)>> >> ELSE <<>>
  ELSE <<>>

\* a slip: the traversal returns at the first hit
check_security_FirstOnly(tree) ==
  LET all == Flatten([k \in 1..Len(tree) |-> NodeSecurityErrors(tree[k])])
  IN  IF all = <<>> THEN <<>> ELSE <<Head(all)>>

check_security(tree) ==
  Flatten([k \in 1..Len(tree) |-> NodeSecurityErrors(tree[k])])

MethodNames(cls) == {cls.methods[k].name : k \in 1..Len(cls.methods)}

\* [errors, warnings] of the template check
check_template(tree) ==
  LET isClass(n) == n.kind = "ClassDef"
      classes == SelectSeq(tree, isClass)
      hasShouldTrade(c) == "should_trade" \in MethodNames(c)
      strategies == SelectSeq(classes, hasShouldTrade)
  IN  IF classes = <<>> THEN
        [errors |-> << <<"No class definition found">> >>, warnings |-> <<>>]
      ELSE IF strategies = <<>> THEN
        [errors |-> << <<"Strategy class must have 'should_trade' method">> >>,
         warnings |-> <<>>]
      ELSE
        LET strategy_class == Head(strategies)
            short(m) == m.name = "should_trade" /\ m.nargs < 2
            shorts == SelectSeq(strategy_class.methods, short)
        IN  [errors |-> [k \in 1..Len(shorts) |->
                           <<"should_trade must accept 'data' parameter">>],
             warnings |->
               IF "init" \notin MethodNames(strategy_class)
                  /\ "__init__" \notin MethodNames(strategy_class)
               THEN << <<"Consider adding 'init' method">> >> ELSE <<>>]

\* CodeValidator.validate: [is_valid, errors, warnings]
validate(code) ==
  IF ~code.syntax_ok THEN
    [is_valid |-> FALSE, errors |-> << <<"Line lineno: msg">> >>, warnings |-> <<>>]
  ELSE
    LET template == check_template(code.nodes)
        errors == check_security(code.nodes) \o template.errors
    IN  [is_valid |-> Len(errors) = 0, errors |-> errors,
         warnings |-> template.warnings]

validate_strategy_code(code) == validate(code)

(* The sources a run is given *)

StrategyClass(withInit) ==
  [kind |-> "ClassDef",
   methods |-> (IF withInit THEN <<[name |-> "init", nargs |-> 2]>> ELSE <<>>)
               \o <<[name |-> "should_trade", nargs |-> 2]>>]

GoodCode ==
  [syntax_ok |-> TRUE,
   nodes |-> <<StrategyClass(TRUE), [kind |-> "Call", func |-> Some("log")]>>]

BadImportCode ==
  [syntax_ok |-> TRUE,
   nodes |-> <<[kind |-> "Import", names |-> << <<"os", "path">> >>],
               StrategyClass(FALSE)>>]

CodeSamples == {GoodCode, BadImportCode}

-----------------------------------------------------------------------------
(* models.py is not part of the sources: a Decision is the record of the   *)
(* fields executor.py and backtest.py read from it.                        *)

\* str.lower() on the operation strings the model uses
Lower(op) == IF op = "BUY" THEN "buy" ELSE op

\* decision.action, the ActionType of the decision's operation
action(decision) == Lower(decision.operation)

Decision(op, size, lev, maxp, minp) ==
  [operation |-> op, symbol |-> "BTC", size_usd |-> size, leverage |-> lev,
   max_price |-> maxp, min_price |-> minp,
   target_portion_of_balance |-> Rat(1, 2), time_in_force |-> "Ioc",
   tp_execution |-> "limit", sl_execution |-> "limit"]

\* what a strategy may return to the engine: every operation, a request
\* below and above 95% of the balance, fields inside and outside the rules
RunDecisions ==
  {Decision("buy", RInt(38), 1, Some(5), Some(5)),
   Decision("sell", RInt(1000), 1, Some(5), Some(5)),
   Decision("close", RInt(38), 1, Some(5), Some(5)),
   Decision("hold", RInt(38), 1, Some(5), Some(5)),
   Decision("buy", RInt(1000), 51, None, Some(5))}

\* the parts of two slips of validate_decision
RangeErrors(decision) ==
  (IF RLt(decision.target_portion_of_balance, Rat(1, 10))
      \/ RLt(RInt(1), decision.target_portion_of_balance)
   THEN <<"target_portion_of_balance must be 0.1-1.0">> ELSE <<>>)
  \o (IF decision.leverage < 1 \/ decision.leverage > 50
      THEN <<"leverage must be 1-50">> ELSE <<>>)

ModeErrors(decision) ==
  (IF decision.time_in_force \notin {"Ioc", "Gtc", "Alo"}
   THEN <<"time_in_force must be Ioc/Gtc/Alo">> ELSE <<>>)
  \o (IF decision.tp_execution \notin {"market", "limit"}
      THEN <<"tp_execution must be market/limit">> ELSE <<>>)
  \o (IF decision.sl_execution \notin {"market", "limit"}
      THEN <<"sl_execution must be market/limit">> ELSE <<>>)

PriceErrors(op, decision, positions) ==
  IF op = "buy" THEN
    IF decision.max_price = None
    THEN <<"max_price is required for buy operations">> ELSE <<>>
  ELSE IF op = "sell" THEN
    IF decision.min_price = None
    THEN <<"min_price is required for sell operations">> ELSE <<>>
  ELSE IF op = "close" /\ decision.symbol \in DOMAIN positions THEN
    IF positions[decision.symbol].side = "long" /\ decision.min_price = None
    THEN <<"min_price is required for closing LONG positions">>
    ELSE IF positions[decision.symbol].side = "short"
            /\ decision.max_price = None
    THEN <<"max_price is required for closing SHORT positions">>
    ELSE <<>>
  ELSE <<>>

\* a slip: the price requirements are not checked
validate_decision_NoPriceCheck(decision, positions) ==
  LET op == IF decision.operation # "" THEN Lower(decision.operation) ELSE ""
      errors == RangeErrors(decision) \o ModeErrors(decision)
  IN  IF op \notin {"buy", "sell", "hold", "close"} THEN
        [is_valid |-> FALSE, errors |-> <<"Invalid operation">>]
      ELSE IF op = "hold" THEN [is_valid |-> TRUE, errors |-> <<>>]
      ELSE [is_valid |-> Len(errors) = 0, errors |-> errors]

\* a slip: a hold is checked like the other operations
validate_decision_HoldChecked(decision, positions) ==
  LET op == IF decision.operation # "" THEN Lower(decision.operation) ELSE ""
      errors == RangeErrors(decision) \o PriceErrors(op, decision, positions)
                \o ModeErrors(decision)
  IN  IF op \notin {"buy", "sell", "hold", "close"} THEN
        [is_valid |-> FALSE, errors |-> <<"Invalid operation">>]
      ELSE [is_valid |-> Len(errors) = 0, errors |-> errors]

\* validate_decision: [is_valid, errors]; positions is a function from the
\* symbols holding a position to [side]; None and {} are the empty function
validate_decision(decision, positions) ==
  LET op == IF decision.operation # "" THEN Lower(decision.operation) ELSE ""
  IN
  IF op \notin {"buy", "sell", "hold", "close"} THEN
    [is_valid |-> FALSE, errors |-> <<"Invalid operation">>]
  ELSE IF op = "hold" THEN
    [is_valid |-> TRUE, errors |-> <<>>]
  ELSE
    LET portion == decision.target_portion_of_balance
        e_portion ==
          IF RLt(portion, Rat(1, 10)) \/ RLt(RInt(1), portion)
          THEN <<"target_portion_of_balance must be 0.1-1.0">> ELSE <<>>
        e_leverage ==
          IF decision.leverage < 1 \/ decision.leverage > 50
          THEN <<"leverage must be 1-50">> ELSE <<>>
        pos == IF DOMAIN positions # {} /\ decision.symbol \in DOMAIN positions
               THEN Some(positions[decision.symbol]) ELSE None
        e_price ==
          IF op = "buy" THEN
            IF decision.max_price = None
            THEN <<"max_price is required for buy operations">> ELSE <<>>
          ELSE IF op = "sell" THEN
            IF decision.min_price = None
            THEN <<"min_price is required for sell operations">> ELSE <<>>
          ELSE IF pos # None THEN
            IF Val(pos).side = "long" /\ decision.min_price = None
            THEN <<"min_price is required for closing LONG positions">>
            ELSE IF Val(pos).side = "short" /\ decision.max_price = None
            THEN <<"max_price is required for closing SHORT positions">>
            ELSE <<>>
          ELSE <<>>
        e_tif ==
          IF decision.time_in_force \notin {"Ioc", "Gtc", "Alo"}
          THEN <<"time_in_force must be Ioc/Gtc/Alo">> ELSE <<>>
        e_tp ==
          IF decision.tp_execution \notin {"market", "limit"}
          THEN <<"tp_execution must be market/limit">> ELSE <<>>
        e_sl ==
          IF decision.sl_execution \notin {"market", "limit"}
          THEN <<"sl_execution must be market/limit">> ELSE <<>>
        errors == e_portion \o e_leverage \o e_price \o e_tif \o e_tp \o e_sl
    IN  [is_valid |-> Len(errors) = 0, errors |-> errors]

-----------------------------------------------------------------------------
(* backtest.py: the data provider and the engine's arithmetic *)

Max(a, b) == IF a > b THEN a ELSE b
Min(a, b) == IF a < b THEN a ELSE b

\* BacktestDataProvider.get_klines: the positions (0-based) of the bars it
\* returns, in order, for a series of n bars
get_klines(key_in_klines, index, n, count) ==
  IF ~key_in_klines THEN <<>>
  ELSE
    LET end_idx == Min(index + 1, n)
        start_idx == Max(0, end_idx - count)
    IN  [k \in 1..Max(0, end_idx - start_idx) |-> start_idx + k - 1]

\* BacktestEngine.__init__: the parameters of the engine under test, chosen
\* so that 95% of a balance and its fee stay short fractions
initial_balance == RInt(400)
fee_rate == Rat(1, 19)

Prices == {1, 2}

\* the counts a strategy passes to get_klines
Counts == {-1, 0, 1, 60}

calc_unrealized_pnl(pos, current_price) ==
  IF pos.side = "long"
  THEN RMul(RSub(current_price, pos.entry_price), pos.size)
  ELSE RMul(RSub(pos.entry_price, current_price), pos.size)

calc_realized_pnl(pos, exit_price) == calc_unrealized_pnl(pos, exit_price)

\* balance + unrealized P&L of the open position, if any
Equity(bal, pos, current_price) ==
  IF pos # None THEN RAdd(bal, calc_unrealized_pnl(Val(pos), current_price))
  ELSE bal

Trade(ts, side, act, price, size, pnl) ==
  [timestamp |-> ts, symbol |-> "BTC", side |-> side, action |-> act,
   price |-> price, size |-> size, pnl |-> pnl]

\* a slip: the notional is taken out of the balance along with the fee
OpenPositionDeductsNotional(side, decision, bal, tr, current_price, ts) ==
  LET size == RDiv(RMin(decision.size_usd, RMul(bal, Rat(95, 100))),
                   current_price)
      fee == RMul(RMul(size, current_price), fee_rate)
  IN  [balance |-> RSub(RSub(bal, RMul(size, current_price)), fee),
       position |-> Some([symbol |-> "BTC", side |-> side, size |-> size,
                          entry_price |-> current_price,
                          leverage |-> decision.leverage]),
       trades |-> Append(tr, Trade(ts, side, "open", current_price, size, RZero))]

\* opening a position (backtest.py:156-168 and 172-184)
OpenPosition(side, decision, bal, tr, current_price, ts) ==
  LET size == RDiv(RMin(decision.size_usd, RMul(bal, Rat(95, 100))),
                   current_price)
      fee == RMul(RMul(size, current_price), fee_rate)
  IN  [balance |-> RSub(bal, fee),
       position |-> Some([symbol |-> "BTC", side |-> side, size |-> size,
                          entry_price |-> current_price,
                          leverage |-> decision.leverage]),
       trades |-> Append(tr, Trade(ts, side, "open", current_price, size, RZero))]

\* a slip: the close adds the P&L to the balance and takes no fee
ClosePositionFeeFree(pos, bal, tr, current_price, ts) ==
  LET pnl == calc_realized_pnl(pos, current_price)
  IN  [balance |-> RAdd(bal, pnl),
       position |-> None,
       trades |-> Append(tr, Trade(ts, pos.side, "close", current_price,
                                   pos.size, pnl))]

\* closing the open position (backtest.py:188-196)
ClosePosition(pos, bal, tr, current_price, ts) ==
  LET pnl == calc_realized_pnl(pos, current_price)
      fee == RMul(RMul(pos.size, current_price), fee_rate)
  IN  [balance |-> RAdd(bal, RSub(pnl, fee)),
       position |-> None,
       trades |-> Append(tr, Trade(ts, pos.side, "close", current_price,
                                   pos.size, pnl))]

\* positions={symbol: position} if position else {} (backtest.py:140)
snapshot_positions(pos) == IF pos # None THEN [BTC |-> Val(pos)] ELSE <<>>

\* a slip: the elif chain without its "position is None" tests
ProcessDecisionPyramiding(decision, bal, pos, tr, current_price, ts) ==
  IF action(decision) = "buy" THEN
    OpenPosition("long", decision, bal, tr, current_price, ts)
  ELSE IF action(decision) = "sell" THEN
    OpenPosition("short", decision, bal, tr, current_price, ts)
  ELSE IF action(decision) = "close" /\ pos # None THEN
    ClosePosition(Val(pos), bal, tr, current_price, ts)
  ELSE [balance |-> bal, position |-> pos, trades |-> tr]

\* a slip: the chain tests for sell and close only and takes everything
\* else, a hold too, for a buy
ProcessDecisionDefaultBuy(decision, bal, pos, tr, current_price, ts) ==
  IF action(decision) = "sell" /\ pos = None THEN
    OpenPosition("short", decision, bal, tr, current_price, ts)
  ELSE IF action(decision) = "close" /\ pos # None THEN
    ClosePosition(Val(pos), bal, tr, current_price, ts)
  ELSE IF pos = None THEN
    OpenPosition("long", decision, bal, tr, current_price, ts)
  ELSE [balance |-> bal, position |-> pos, trades |-> tr]

\* the if/elif chain of run on a decision: the new balance, position, trades
ProcessDecision(decision, bal, pos, tr, current_price, ts) ==
  IF action(decision) = "buy" /\ pos = None THEN
    OpenPosition("long", decision, bal, tr, current_price, ts)
  ELSE IF action(decision) = "sell" /\ pos = None THEN
    OpenPosition("short", decision, bal, tr, current_price, ts)
  ELSE IF action(decision) = "close" /\ pos # None THEN
    ClosePosition(Val(pos), bal, tr, current_price, ts)
  ELSE [balance |-> bal, position |-> pos, trades |-> tr]

\* the peak after an equity point (backtest.py:203-204)
NewPeak(peak, equity) == IF RLt(peak, equity) THEN equity ELSE peak

\* the drawdown of an equity point against the peak (backtest.py:205)
Drawdown(peak, equity) == RDiv(RSub(peak, equity), peak)

\* a slip: the last drawdown kept instead of the largest
NewMaxDrawdownLast(maxdd, drawdown) == drawdown

\* the maximum drawdown after a point (backtest.py:206-207)
NewMaxDrawdown(maxdd, drawdown) == IF RLt(maxdd, drawdown) THEN drawdown ELSE maxdd

RECURSIVE SumPnl(_)
SumPnl(ts) == IF ts = <<>> THEN RZero ELSE RAdd(Head(ts).pnl, SumPnl(Tail(ts)))

\* a slip: the counts and the sum taken over all entries, opens included
calculate_metrics_AllTrades(tr, curve, maxdd) ==
  LET isWin(t) == RLt(RZero, t.pnl)
      isLoss(t) == RLe(t.pnl, RZero)
      winning == SelectSeq(tr, isWin)
      losing == SelectSeq(tr, isLoss)
  IN  [success |-> TRUE, error |-> None,
       total_trades |-> Len(tr),
       winning_trades |-> Len(winning),
       losing_trades |-> Len(losing),
       win_rate |-> IF tr # <<>> THEN Rat(Len(winning), Len(tr)) ELSE RZero,
       total_pnl |-> SumPnl(tr),
       max_drawdown |-> maxdd,
       equity_curve |-> curve,
       trades |-> tr]

\* BacktestEngine._calculate_metrics
calculate_metrics(tr, curve, maxdd) ==
  LET isClose(t) == t.action = "close"
      close_trades == SelectSeq(tr, isClose)
      isWin(t) == RLt(RZero, t.pnl)
      isLoss(t) == RLe(t.pnl, RZero)
      winning == SelectSeq(close_trades, isWin)
      losing == SelectSeq(close_trades, isLoss)
  IN  [success |-> TRUE, error |-> None,
       total_trades |-> Len(close_trades),
       winning_trades |-> Len(winning),
       losing_trades |-> Len(losing),
       win_rate |-> IF close_trades # <<>>
                    THEN Rat(Len(winning), Len(close_trades)) ELSE RZero,
       total_pnl |-> SumPnl(close_trades),
       max_drawdown |-> maxdd,
       equity_curve |-> curve,
       trades |-> tr]

\* BacktestResult(success=False, error=...): every other field its default
FailedResult(err) ==
  [success |-> FALSE, error |-> Some(err), total_trades |-> 0,
   winning_trades |-> 0, losing_trades |-> 0, win_rate |-> RZero,
   total_pnl |-> RZero, max_drawdown |-> RZero, equity_curve |-> <<>>,
   trades |-> <<>>]

-----------------------------------------------------------------------------
(* executor.py: results of execute *)

ExecutionError(kind, errors) == [kind |-> kind, errors |-> errors]

\* f"Validation failed: {'; '.join(validation.errors)}"
ValidationFailed(errors) == ExecutionError("Validation failed", errors)
\* f"Execution timed out after {self.timeout_seconds}s"
TimedOut == ExecutionError("Execution timed out after timeout_seconds", <<>>)
\* f"Execution error: {str(e)}\n{traceback.format_exc()}"
ExecutionFault(e) == ExecutionError("Execution error", << <<e>> >>)

\* what an evaluation can raise inside the try of run_sandbox
Faults ==
  {"No valid strategy class found in code",
   "should_trade must return Decision",
   "fault raised by the program"}

\* the list ExecutionResult.__post_init__ creates when logs is None
PrivateList == -1

ExecutionResult(success, decision, error, ms, logs) ==
  [success |-> success, decision |-> decision, error |-> error,
   execution_time_ms |-> ms, logs |-> logs]

\* the measured (time.time() - start_time) * 1000: of a thread that
\* finished in time, and of one that did not
Elapsed(timed_out) == IF timed_out THEN {timeout_seconds * 1000 + 5} ELSE {5}

EmptyHolder == [decision |-> None, error |-> None]

-----------------------------------------------------------------------------
(* State *)

VARIABLES
  \* the arguments of run
  code,            \* the strategy source
  klines_kind,     \* "empty": no mapping; "nokey": no symbol_period key; "ok"
  nbars,           \* len(kline_data)
  closes,          \* the close price of each bar run reads (index >= WarmUp)
  \* BacktestEngine.run
  pc,              \* "start", "loop", "execute", "done"
  i,               \* the loop variable
  current_index,   \* data_provider.current_index
  balance, position, trades, equity_curve, peak_equity, max_drawdown,
  only_hold,       \* every decision run has acted on so far was a hold
  result,          \* the BacktestResult run returns, None until then
  \* SandboxExecutor.execute
  epc,             \* "idle", "validate", "join", "cancel", "teardown", "return"
  result_holder,   \* the result_holder of the call in progress
  exec_result,     \* the ExecutionResult returned, None until then
  execution_logs,  \* self._execution_logs: the list it is bound to
  heap,            \* the content of every log list a reference reaches
  logged,          \* the thread of the call in progress has called log
  \* the threads execute has started, in order; unit k is the k-th:
  \* [bar: the bar it evaluates, pc: "start", "running" or "finished",
  \*  cancel: an ExecutionTimeoutError is pending]
  units,
  \* some thread got from get_klines a bar after the one it evaluates
  future_seen,
  \* a direct call of one of the functions of the package
  fn,              \* the function called; "run" for BacktestEngine.run
  args,            \* its arguments, for a function other than run
  returned         \* what it returned, None until then

vars ==
  <<code, klines_kind, nbars, closes, pc, i, current_index, balance, position,
    trades, equity_curve, peak_equity, max_drawdown, result, epc,
    result_holder, exec_result, execution_logs, heap, logged, units,
    future_seen, only_hold, fn, args, returned>>

inputs == <<code, klines_kind, nbars, closes>>
engine ==
  <<balance, position, trades, equity_curve, peak_equity, max_drawdown,
    only_hold>>
call == <<fn, args, returned>>
executor == <<epc, result_holder, exec_result>>
logs == <<execution_logs, heap, logged>>

\* the series lengths tried: none, below and at the minimum, the warm-up
\* only, and one to MaxBars - WarmUp evaluated bars
BarCounts == {0, MinBars - 1, MinBars} \cup (WarmUp..MaxBars)

\* the state before the first statement of run
RunEntry ==
  /\ pc = "start"
  /\ i = WarmUp
  /\ current_index = 0
  /\ balance = initial_balance
  /\ position = None
  /\ trades = <<>>
  /\ equity_curve = <<>>
  /\ peak_equity = initial_balance
  /\ max_drawdown = RZero
  /\ result = None
  /\ epc = "idle"
  /\ result_holder = EmptyHolder
  /\ exec_result = None
  /\ execution_logs = 0
  /\ heap = (0 :> <<>>)
  /\ logged = FALSE
  /\ units = <<>>
  /\ future_seen = FALSE
  /\ only_hold = TRUE

\* a call of BacktestEngine.run
Init ==
  /\ code \in CodeSamples
  /\ klines_kind \in {"empty", "nokey", "ok"}
  /\ nbars \in (IF klines_kind = "ok" THEN BarCounts ELSE {0})
  /\ closes \in [WarmUp..(nbars - 1) -> Prices]
  /\ RunEntry
  /\ fn = "run"
  /\ args = <<>>
  /\ returned = None

-----------------------------------------------------------------------------
(* BacktestEngine.run *)

\* a slip: the minimum number of bars off by one
RunStartOffByOne ==
  /\ pc = "start"
  /\ IF klines_kind # "ok" THEN
       /\ result' = Some(FailedResult("No kline data provided"))
       /\ pc' = "done"
     ELSE IF nbars < MinBars - 1 THEN
       /\ result' = Some(FailedResult("Insufficient kline data"))
       /\ pc' = "done"
     ELSE
       /\ result' = result
       /\ pc' = "loop"
  /\ UNCHANGED <<inputs, call, i, current_index, engine, executor, logs, units,
                 future_seen>>

\* backtest.py:108-113: the precondition checks
RunStart ==
  /\ pc = "start"
  /\ IF klines_kind # "ok" THEN
       /\ result' = Some(FailedResult("No kline data provided"))
       /\ pc' = "done"
     ELSE IF nbars < MinBars THEN
       /\ result' = Some(FailedResult("Insufficient kline data"))
       /\ pc' = "done"
     ELSE
       /\ result' = result
       /\ pc' = "loop"
  /\ UNCHANGED <<inputs, call, i, current_index, engine, executor, logs, units, future_seen>>

\* backtest.py:128-145: the next bar: advance the provider and call execute
LoopNext ==
  /\ pc = "loop"
  /\ i < nbars
  /\ current_index' = i
  /\ pc' = "execute"
  /\ epc' = "validate"
  /\ UNCHANGED <<inputs, call, i, engine, result, result_holder, exec_result, logs,
                 units, future_seen>>

\* the lists of h that a reference reaches
Collect(h, live) == [l \in live \cap DOMAIN h |-> h[l]]

\* run has read the ExecutionResult and drops it: the frame of execute and
\* the lists only the result referred to are gone
ReturnConsumed ==
  /\ epc' = "idle"
  /\ exec_result' = None
  /\ result_holder' = EmptyHolder
  /\ heap' = Collect(heap, {execution_logs})
  /\ UNCHANGED <<execution_logs, logged>>

\* a slip: a failed evaluation ends the run with a failure
SkipBarAborts ==
  /\ pc = "execute"
  /\ epc = "return"
  /\ ~Val(exec_result).success \/ Val(exec_result).decision = None
  /\ result' = Some(FailedResult("Strategy execution failed"))
  /\ pc' = "done"
  /\ ReturnConsumed
  /\ UNCHANGED <<inputs, call, i, current_index, engine, units, future_seen>>

\* backtest.py:146-151: a failed evaluation, or none: on to the next bar
SkipBar ==
  /\ pc = "execute"
  /\ epc = "return"
  /\ ~Val(exec_result).success \/ Val(exec_result).decision = None
  /\ i' = i + 1
  /\ pc' = "loop"
  /\ ReturnConsumed
  /\ UNCHANGED <<inputs, call, current_index, engine, result, units, future_seen>>

\* backtest.py:149-207: act on the decision, record equity, track drawdown
ApplyDecision ==
  /\ pc = "execute"
  /\ epc = "return"
  /\ Val(exec_result).success
  /\ Val(exec_result).decision # None
  /\ LET decision == Val(Val(exec_result).decision)
         current_price == RInt(closes[i])
         new == ProcessDecision(decision, balance, position, trades,
                                current_price, i)
         equity == Equity(new.balance, new.position, current_price)
         peak == NewPeak(peak_equity, equity)
     IN  /\ balance' = new.balance
         /\ position' = new.position
         /\ trades' = new.trades
         /\ equity_curve' = Append(equity_curve,
                                   [timestamp |-> i, equity |-> equity])
         /\ peak_equity' = peak
         /\ max_drawdown' = NewMaxDrawdown(max_drawdown, Drawdown(peak, equity))
         /\ only_hold' = (only_hold /\ Lower(decision.operation) = "hold")
  /\ i' = i + 1
  /\ pc' = "loop"
  /\ ReturnConsumed
  /\ UNCHANGED <<inputs, call, current_index, result, units, future_seen>>

\* backtest.py:209-210: the loop is over
LoopEnd ==
  /\ pc = "loop"
  /\ i >= nbars
  /\ result' = Some(calculate_metrics(trades, equity_curve, max_drawdown))
  /\ pc' = "done"
  /\ UNCHANGED <<inputs, call, i, current_index, engine, executor, logs, units, future_seen>>

-----------------------------------------------------------------------------
(* SandboxExecutor.execute, the controlling flow *)

NewUnit(bar) ==
  [bar |-> bar, pc |-> "start", cancel |-> FALSE]

Alive(u) == u.pc # "finished"

\* a slip: the measured time reported instead of the configured timeout
TimeoutResultMeasured(ms, log_list) ==
  ExecutionResult(FALSE, None, Some(TimedOut), ms, log_list)

\* executor.py:147-153: the result of the timeout branch
TimeoutResult(ms, log_list) ==
  ExecutionResult(FALSE, None, Some(TimedOut), timeout_seconds * 1000, log_list)

\* executor.py:155-170: the result after the thread was found finished
CompletedResult(holder, ms, log_list) ==
  IF holder.error # None
  THEN ExecutionResult(FALSE, None, holder.error, ms, log_list)
  ELSE ExecutionResult(TRUE, holder.decision, None, ms, log_list)

\* a slip: the thread is started without the validation
ExecuteNoValidation ==
  /\ epc = "validate"
  /\ result_holder' = EmptyHolder
  /\ units' = Append(units, NewUnit(i))
  /\ logged' = FALSE
  /\ epc' = "join"
  /\ UNCHANGED <<inputs, call, pc, i, current_index, engine, result,
                 exec_result, execution_logs, heap, future_seen>>

\* executor.py:115-138: validate; on failure return, else start the thread
ExecuteValidate ==
  /\ epc = "validate"
  /\ LET validation == validate_strategy_code(code)
     IN  IF ~validation.is_valid THEN
           /\ exec_result' =
                Some(ExecutionResult(FALSE, None,
                                     Some(ValidationFailed(validation.errors)),
                                     0, PrivateList))
           /\ epc' = "return"
           /\ UNCHANGED <<result_holder, units, logged>>
         ELSE
           /\ result_holder' = EmptyHolder
           /\ units' = Append(units, NewUnit(i))
           /\ logged' = FALSE
           /\ epc' = "join"
           /\ UNCHANGED exec_result
  /\ UNCHANGED <<inputs, call, pc, i, current_index, engine, result, execution_logs,
                 heap, future_seen>>

\* executor.py:139-143, 155-170: join returned and the thread is not alive
ExecuteJoined ==
  /\ epc = "join"
  /\ ~Alive(units[Len(units)])
  /\ \E ms \in Elapsed(FALSE) :
       exec_result' = Some(CompletedResult(result_holder, ms, execution_logs))
  /\ epc' = "return"
  /\ UNCHANGED <<inputs, call, pc, i, current_index, engine, result, result_holder,
                 logs, units, future_seen>>

\* executor.py:139-143: join(timeout) ran out and is_alive() is true
ExecuteDeadline ==
  /\ epc = "join"
  /\ Alive(units[Len(units)])
  /\ epc' = "cancel"
  /\ UNCHANGED <<inputs, call, pc, i, current_index, engine, result, result_holder,
                 exec_result, logs, units, future_seen>>

\* executor.py:145, 85-95: PyThreadState_SetAsyncExc on the thread, which
\* does nothing when the thread has finished meanwhile
ExecuteCancel ==
  /\ epc = "cancel"
  /\ units' = [units EXCEPT ![Len(units)].cancel = Alive(units[Len(units)])]
  /\ epc' = "teardown"
  /\ UNCHANGED <<inputs, call, pc, i, current_index, engine, result, result_holder,
                 exec_result, logs, future_seen>>

\* executor.py:146-153: join(0.5) over, whether the thread ended or not
ExecuteTimeoutReturn ==
  /\ epc = "teardown"
  /\ \E ms \in Elapsed(TRUE) :
       exec_result' = Some(TimeoutResult(ms, execution_logs))
  /\ epc' = "return"
  /\ UNCHANGED <<inputs, call, pc, i, current_index, engine, result, result_holder,
                 logs, units, future_seen>>

-----------------------------------------------------------------------------
(* The evaluation threads: run_sandbox and _execute_in_sandbox.  What the  *)
(* strategy does is its own choice: log, query the data provider, return a *)
(* Decision or something else, raise, catch the timeout, or never end.     *)

\* result_holder is read only by the join that finds its thread finished
\* (ExecuteJoined); a write at any other time lands in a dict that is never
\* read again
HolderRead(k) == k = Len(units) /\ epc = "join"

\* the thread writes one of the holders of the set
WriteHolder(k, holders) ==
  IF HolderRead(k) THEN result_holder' \in holders
  ELSE UNCHANGED result_holder

\* the list the ExecutionResult not yet read by run refers to
ResultLogs == IF exec_result # None THEN {Val(exec_result).logs} ELSE {}

Range(f) == {f[x] : x \in DOMAIN f}

\* executor.py:179: self._execution_logs = []
UnitStart(k) ==
  /\ units[k].pc = "start"
  /\ ~units[k].cancel
  /\ execution_logs' = k
  /\ heap' = (k :> <<>>) @@ Collect(heap, ResultLogs)
  /\ units' = [units EXCEPT ![k].pc = "running"]
  /\ UNCHANGED <<inputs, call, pc, i, current_index, engine, result, executor,
                 logged, future_seen>>

\* executor.py:219-221: log(message) called by the strategy; the message
\* is the number of the thread, and a thread logs it once to a list
UnitLog(k) ==
  /\ units[k].pc = "running"
  /\ ~units[k].cancel
  /\ k \notin Range(heap[execution_logs])
  /\ heap' = [heap EXCEPT ![execution_logs] = Append(@, k)]
  /\ logged' = (logged \/ k = Len(units))
  /\ UNCHANGED <<inputs, call, pc, i, current_index, engine, result, executor,
                 execution_logs, units, future_seen>>

\* backtest.py:58-64: the strategy asks its snapshot's data provider for bars
UnitGetKlines(k) ==
  /\ units[k].pc = "running"
  /\ ~units[k].cancel
  /\ \E ahead \in
         {\E b \in 1..Len(get_klines(TRUE, current_index, nbars, count)) :
            get_klines(TRUE, current_index, nbars, count)[b] > units[k].bar :
          count \in Counts} :
       future_seen' = (future_seen \/ ahead)
  /\ UNCHANGED <<inputs, call, pc, i, current_index, engine, result, executor, logs,
                 units>>

\* executor.py:131, 211-217: should_trade returned a Decision
UnitReturn(k) ==
  /\ units[k].pc = "running"
  /\ ~units[k].cancel
  /\ WriteHolder(k, {[decision |-> Some(decision), error |-> None] :
                        decision \in RunDecisions})
  /\ units' = [units EXCEPT ![k].pc = "finished"]
  /\ UNCHANGED <<inputs, call, pc, i, current_index, engine, result, epc,
                 exec_result, logs, future_seen>>

\* executor.py:134-135, 192-215: an Exception out of _execute_in_sandbox
UnitRaise(k) ==
  /\ units[k].pc = "running"
  /\ ~units[k].cancel
  /\ WriteHolder(k, {[decision |-> None, error |-> Some(ExecutionFault(e))] :
                        e \in Faults})
  /\ units' = [units EXCEPT ![k].pc = "finished"]
  /\ UNCHANGED <<inputs, call, pc, i, current_index, engine, result, epc,
                 exec_result, logs, future_seen>>

\* executor.py:130-135: an exception that is no Exception (a BaseException)
\* passes both except clauses and ends the thread
UnitUncaught(k) ==
  /\ units[k].pc = "running"
  /\ ~units[k].cancel
  /\ units' = [units EXCEPT ![k].pc = "finished"]
  /\ UNCHANGED <<inputs, call, pc, i, current_index, engine, result, executor, logs, future_seen>>

\* executor.py:132-133: the ExecutionTimeoutError set by the controller is
\* raised in the thread and reaches run_sandbox
UnitTimeout(k) ==
  /\ Alive(units[k])
  /\ units[k].cancel
  /\ WriteHolder(k, {[decision |-> None, error |-> Some(TimedOut)]})
  /\ units' = [units EXCEPT ![k].pc = "finished", ![k].cancel = FALSE]
  /\ UNCHANGED <<inputs, call, pc, i, current_index, engine, result, epc,
                 exec_result, logs, future_seen>>

\* ExecutionTimeoutError is an Exception: a try/except of the strategy
\* catches it and the strategy goes on
UnitCatch(k) ==
  /\ units[k].pc = "running"
  /\ units[k].cancel
  /\ units' = [units EXCEPT ![k].cancel = FALSE]
  /\ UNCHANGED <<inputs, call, pc, i, current_index, engine, result, executor, logs, future_seen>>

Controller ==
  \/ ExecuteValidate
  \/ ExecuteJoined
  \/ ExecuteDeadline
  \/ ExecuteCancel
  \/ ExecuteTimeoutReturn

Unit(k) ==
  \/ UnitStart(k)
  \/ UnitLog(k)
  \/ UnitGetKlines(k)
  \/ UnitReturn(k)
  \/ UnitRaise(k)
  \/ UnitUncaught(k)
  \/ UnitTimeout(k)
  \/ UnitCatch(k)

Next ==
  \/ RunStart
  \/ LoopNext
  \/ SkipBar
  \/ ApplyDecision
  \/ LoopEnd
  \/ Controller
  \/ \E k \in 1..Len(units) : Unit(k)

Spec == Init /\ [][Next]_vars

\* execute runs in the calling thread, and its joins are bounded by their
\* timeouts: it takes its next step.  Nothing makes an evaluation thread
\* take one.
FairSpec == Spec /\ WF_vars(Controller)

-----------------------------------------------------------------------------
(* Direct calls of validate_decision, _calculate_metrics and               *)
(* validate_strategy_code: the arguments are drawn from the sets below,    *)
(* one step makes the call.                                                *)

\* sequences over S of length at most n
SeqsUpTo(S, n) == UNION {[1..m -> S] : m \in 0..n}

\* Decisions around every limit validate_decision tests
DecisionArgs ==
  [operation : {"buy", "sell", "close", "hold", "BUY", ""},
   symbol : {"BTC"},
   size_usd : {RInt(38)},
   leverage : {0, 1, 50, 51},
   max_price : {None, Some(5)},
   min_price : {None, Some(5)},
   target_portion_of_balance : {Rat(1, 20), Rat(1, 10), RInt(1), Rat(11, 10)},
   time_in_force : {"Ioc", "Gtc", "Alo", "Fok"},
   tp_execution : {"market", "limit", "stop"},
   sl_execution : {"market", "limit", "stop"}]

\* the positions argument: none (None or {}), a long or a short position
\* of the decision's symbol, a position of another symbol only
PositionsArgs ==
  {<<>>, [BTC |-> [side |-> "long"]], [BTC |-> [side |-> "short"]],
   [ETH |-> [side |-> "long"]]}

\* the entries of a trade log: an open, and closes with a loss, with no
\* gain and with a gain
TradeArgs ==
  {Trade(0, "long", "open", RInt(1), RInt(1), RZero)}
  \cup {Trade(0, "long", "close", RInt(1), RInt(1), pnl) :
          pnl \in {RInt(-1), RZero, RInt(2)}}

\* the nodes of a syntax tree
NodeArgs ==
  {[kind |-> "Import", names |-> << <<"os">>, <<"math">>, <<"sys", "path">> >>],
   [kind |-> "Import", names |-> << <<"math">> >>],
   [kind |-> "ImportFrom", module |-> <<"socket">>],
   [kind |-> "ImportFrom", module |-> <<"math">>],
   [kind |-> "ImportFrom", module |-> None],
   [kind |-> "Call", func |-> Some("eval")],
   [kind |-> "Call", func |-> Some("log")],
   [kind |-> "Call", func |-> None],
   [kind |-> "ClassDef", methods |-> <<[name |-> "run", nargs |-> 1]>>],
   [kind |-> "ClassDef", methods |-> <<[name |-> "should_trade", nargs |-> 1]>>],
   StrategyClass(TRUE),
   StrategyClass(FALSE)}

SourceArgs == [syntax_ok : BOOLEAN, nodes : SeqsUpTo(NodeArgs, MaxNodes)]

ArgsOf(f) ==
  IF f = "validate_decision" THEN DecisionArgs \X PositionsArgs
  ELSE IF f = "_calculate_metrics" THEN
    {<<tr>> : tr \in SeqsUpTo(TradeArgs, MaxTrades)}
  ELSE {<<source>> : source \in SourceArgs}

\* a direct call: run is not called
CallInit ==
  /\ code = GoodCode
  /\ klines_kind = "empty"
  /\ nbars = 0
  /\ closes = <<>>
  /\ RunEntry
  /\ fn \in {"validate_decision", "_calculate_metrics",
             "validate_strategy_code"}
  /\ args \in ArgsOf(fn)
  /\ returned = None

Returns(f, value) ==
  /\ fn = f
  /\ returned = None
  /\ returned' = Some(value)
  /\ UNCHANGED <<inputs, fn, args, pc, i, current_index, engine, result,
                 executor, logs, units, future_seen>>

CallValidateDecision ==
  Returns("validate_decision", validate_decision(args[1], args[2]))

CallCalculateMetrics ==
  Returns("_calculate_metrics", calculate_metrics(args[1], <<>>, RZero))

CallValidate ==
  Returns("validate_strategy_code", validate_strategy_code(args[1]))

CallNext ==
  \/ CallValidateDecision
  \/ CallCalculateMetrics
  \/ CallValidate

CallSpec == CallInit /\ [][CallNext]_vars

-----------------------------------------------------------------------------
(* The claims *)

LastUnit == units[Len(units)]

TimeoutReturned ==
  /\ epc = "return"
  /\ exec_result # None
  /\ ~Val(exec_result).success
  /\ Val(exec_result).decision = None
  /\ Val(exec_result).error = Some(TimedOut)
  /\ Val(exec_result).execution_time_ms = timeout_seconds * 1000

\* C1: execute never blocks indefinitely.  Once the thread of a validated
\* program is started, execute returns whatever the thread does; and when
\* the deadline finds the thread alive, execute sets the timeout exception
\* in it and returns success=false, decision=None, the timeout error and
\* execution_time_ms = timeout_seconds * 1000, whether or not the thread
\* ever stops (no step of a thread is assumed).
C1_ExecuteReturnsAtDeadline ==
  /\ (epc \in {"join", "cancel", "teardown"}) ~> (epc = "return")
  /\ [][(epc = "join" /\ Alive(LastUnit) /\ epc' # epc) => epc' = "cancel"]_vars
  /\ [][(epc = "cancel" /\ epc' # epc)
          => (epc' = "teardown" /\ (Alive(LastUnit) => LastUnit'.cancel))]_vars
  /\ [][(epc = "teardown" /\ epc' # epc) => TimeoutReturned']_vars

\* the timeout result is returned while the thread is still running
C1_Witness == TimeoutReturned /\ Alive(LastUnit)

\* C2: at every moment at most one evaluation thread of the run is running.
C2_AtMostOneUnitRunning ==
  Cardinality({k \in 1..Len(units) : Alive(units[k])}) <= 1

\* C3: the logs execute returns for an evaluation are exactly the messages
\* its own thread logged.
C3_LogsPrivate ==
  (epc = "return" /\ Val(exec_result).logs # PrivateList)
    => heap[Val(exec_result).logs]
         = (IF logged THEN <<Len(units)>> ELSE <<>>)

\* C4: a Decision that validate_decision rejects never changes the balance,
\* the position or the trade log.
C4_InvalidDecisionNotActedOn ==
  [][(/\ pc = "execute"
      /\ epc = "return"
      /\ Val(exec_result).decision # None
      /\ ~validate_decision(Val(Val(exec_result).decision),
                            snapshot_positions(position)).is_valid)
       => (balance' = balance /\ position' = position /\ trades' = trades)]_vars

\* C5: get_klines returns a contiguous window of at most count bars that
\* ends at the current index, and no thread ever gets a bar after the bar
\* it evaluates.
C5_NoLookahead ==
  /\ \A count \in Counts :
       LET bars == get_klines(TRUE, current_index, nbars, count)
       IN  /\ Len(bars) <= Max(count, 0)
           /\ \A b \in 1..Len(bars) :
                /\ bars[b] <= current_index
                /\ b > 1 => bars[b] = bars[b - 1] + 1
  /\ ~future_seen

IsOdd(k) == k % 2 = 1

TradeLogAlternates ==
  /\ \A k \in 1..Len(trades) :
       /\ trades[k].action = (IF IsOdd(k) THEN "open" ELSE "close")
       /\ ~IsOdd(k) => /\ trades[k].side = trades[k - 1].side
                       /\ trades[k].size = trades[k - 1].size
  /\ (position # None) <=> IsOdd(Len(trades))
  /\ position # None =>
       /\ Val(position).side = trades[Len(trades)].side
       /\ Val(position).size = trades[Len(trades)].size

\* C6: there is at most one open position; the trade log only grows and
\* alternates open, close, open, ... from an open; a position is open
\* exactly when the last entry is an open; a close carries the side and
\* the size of the open before it.
C6_TradeLogAlternates ==
  /\ []TradeLogAlternates
  /\ [][/\ Len(trades') >= Len(trades)
        /\ SubSeq(trades', 1, Len(trades)) = trades]_vars

\* a position was opened and closed again
C6_Witness ==
  /\ Len(trades) = 2
  /\ position = None
  /\ trades[1].action = "open"
  /\ trades[2].action = "close"

\* an evaluation that ended in a fault or a timeout, or with no decision
FailedBar ==
  /\ pc = "execute"
  /\ epc = "return"
  /\ \/ Val(exec_result).success /\ Val(exec_result).decision = None
     \/ /\ ~Val(exec_result).success
        /\ Val(Val(exec_result).error).kind # "Validation failed"

\* C7: a bar whose evaluation fails or yields no decision leaves balance,
\* position and trade log as they are, the run goes on with the next bar,
\* and the result of the run has success = true.
C7_FailedBarSkipped ==
  /\ [][FailedBar =>
          /\ balance' = balance
          /\ position' = position
          /\ trades' = trades
          /\ pc' # pc => (pc' = "loop" /\ i' = i + 1)]_vars
  /\ [](pc = "done" /\ units # <<>> => Val(result).success)

\* the run is over with success, a position was opened at the first bar,
\* and the second bar was skipped: it left no equity point
C7_Witness ==
  /\ pc = "done"
  /\ Val(result).success
  /\ Len(units) = 2
  /\ Len(equity_curve) = 1
  /\ position # None

\* C8: with a source that fails static validation, run processes no bar
\* after the first and reports no successful run.
C8_ValidationFaultAborts ==
  ~validate_strategy_code(code).is_valid =>
    /\ i = WarmUp
    /\ result # None => ~Val(result).success

\* C9: without kline data run returns "No kline data provided", with fewer
\* than 10 bars "Insufficient kline data"; the strategy is never evaluated
\* and the result has no trades and no equity point.
C9_Preconditions ==
  (klines_kind # "ok" \/ nbars < MinBars) =>
    /\ epc = "idle"
    /\ units = <<>>
    /\ pc = "done" =>
         /\ result # None
         /\ ~Val(result).success
         /\ Val(result).error =
              Some(IF klines_kind # "ok" THEN "No kline data provided"
                   ELSE "Insufficient kline data")
         /\ Val(result).trades = <<>>
         /\ Val(result).equity_curve = <<>>

\* run has returned for a series of 9 bars
C9_Witness ==
  /\ pc = "done"
  /\ klines_kind = "ok"
  /\ nbars = MinBars - 1
  /\ Val(result).error = Some("Insufficient kline data")

\* the largest of a non-empty set of rationals
RMaxOf(S) == CHOOSE x \in S : \A y \in S : RLe(y, x)

\* the running peak at point k of a curve: the largest equity so far, and
\* at least the initial balance
CurvePeak(curve, k) ==
  RMaxOf({initial_balance} \cup {curve[j].equity : j \in 1..k})

CurveDrawdown(curve, k) ==
  RDiv(RSub(CurvePeak(curve, k), curve[k].equity), CurvePeak(curve, k))

CurveMaxDrawdown(curve) ==
  RMaxOf({RZero} \cup {CurveDrawdown(curve, k) : k \in 1..Len(curve)})

\* C10: the running peak never decreases and is the peak of the curve so
\* far; the maximum drawdown, tracked and reported, is the largest
\* (peak - equity) / peak over the points of the curve, and never negative.
C10_MaxDrawdown ==
  /\ [][RLe(peak_equity, peak_equity')]_vars
  /\ [](/\ peak_equity = CurvePeak(equity_curve, Len(equity_curve))
        /\ max_drawdown = CurveMaxDrawdown(equity_curve)
        /\ RLe(RZero, max_drawdown)
        /\ (result # None /\ Val(result).success) =>
             /\ Val(result).max_drawdown
                  = CurveMaxDrawdown(Val(result).equity_curve)
             /\ RLe(RZero, Val(result).max_drawdown))

\* a run is reported whose peak rose above the initial balance after a
\* drawdown
C10_Witness ==
  /\ pc = "done"
  /\ Len(equity_curve) = 2
  /\ RLt(initial_balance, peak_equity)
  /\ RLt(RZero, Val(result).max_drawdown)

\* the fee run deducts for a trade: size * price * fee_rate
TradeFee(t) == RMul(RMul(t.size, t.price), fee_rate)

\* C11: a long opened at one bar and closed at a later bar at a higher
\* price gives one open and one close entry, and the P&L reported for the
\* close is positive and equals (exit_price - entry_price) * size minus the
\* fee of the open and the fee of the close.
C11_LongRoundTripPnl ==
  \A k \in 2..Len(trades) :
    (/\ trades[k].action = "close"
     /\ trades[k].side = "long"
     /\ RLt(trades[k - 1].price, trades[k].price))
    => /\ trades[k - 1].action = "open"
       /\ RLt(RZero, trades[k].pnl)
       /\ trades[k].pnl =
            RSub(RSub(RMul(RSub(trades[k].price, trades[k - 1].price),
                           trades[k].size),
                      TradeFee(trades[k - 1])),
                 TradeFee(trades[k]))
       /\ (result # None /\ Len(trades) = 2) =>
            /\ Val(result).total_trades = 1
            /\ Val(result).total_pnl = trades[k].pnl

\* every equity value of the curve is the initial balance
FlatCurve(curve) == \A k \in 1..Len(curve) : curve[k].equity = initial_balance

\* C12: as long as every decision acted on was a hold, nothing is traded
\* and every equity point is the initial balance; the result of such a run
\* has success = true, total_trades = 0, total_pnl = 0, no trades,
\* max_drawdown = 0 and a flat equity curve.
C12_HoldOnly ==
  only_hold =>
    /\ trades = <<>>
    /\ position = None
    /\ balance = initial_balance
    /\ max_drawdown = RZero
    /\ FlatCurve(equity_curve)
    /\ (pc = "done" /\ units # <<>>) =>
         /\ Val(result).success
         /\ Val(result).total_trades = 0
         /\ Val(result).total_pnl = RZero
         /\ Val(result).trades = <<>>
         /\ Val(result).max_drawdown = RZero
         /\ FlatCurve(Val(result).equity_curve)

\* the run is over and the strategy returned hold at each of two bars
C12_Witness ==
  /\ pc = "done"
  /\ only_hold
  /\ result # None
  /\ Len(Val(result).equity_curve) = 2

ValidationFailure(r) ==
  /\ ~r.success
  /\ r.decision = None
  /\ r.error # None
  /\ Val(r.error).kind = "Validation failed"
  /\ Val(r.error).errors = validate_strategy_code(code).errors
  /\ Val(r.error).errors # <<>>
  /\ r.execution_time_ms = 0

\* C13: execute validates first.  With a source that fails validation its
\* one step is the return of success=false, decision=None, the error
\* "Validation failed" with the validator's errors and execution_time_ms
\* = 0, and no thread is started; a thread is only ever started by the
\* validation step of a source that passed.
C13_ValidationFirst ==
  /\ [][(/\ epc = "validate"
         /\ ~validate_strategy_code(code).is_valid
         /\ epc' # epc)
          => /\ epc' = "return"
             /\ units' = units
             /\ exec_result' # None
             /\ ValidationFailure(Val(exec_result'))]_vars
  /\ [][Len(units') > Len(units)
          => epc = "validate" /\ validate_strategy_code(code).is_valid]_vars
  /\ [](~validate_strategy_code(code).is_valid => units = <<>>)

\* execute has returned the validation failure and no thread exists
C13_Witness ==
  /\ epc = "return"
  /\ exec_result # None
  /\ ValidationFailure(Val(exec_result))
  /\ units = <<>>

\* C14: every fault inside the evaluated program becomes a failure result.
\* A thread that ends before the deadline without having returned a
\* Decision leaves an error in result_holder; execute reports success only
\* with a Decision, and an execution error only with success=false and
\* decision=None.
C14_FaultsBecomeFailures ==
  /\ [][(/\ epc = "join"
         /\ LastUnit.pc = "running"
         /\ LastUnit'.pc = "finished"
         /\ result_holder'.decision = None)
          => result_holder'.error # None]_vars
  /\ []((epc = "return" /\ Val(exec_result).success)
          => /\ Val(exec_result).decision # None
             /\ Val(Val(exec_result).decision) \in RunDecisions)
  /\ []((/\ epc = "return"
         /\ Val(exec_result).error # None
         /\ Val(Val(exec_result).error).kind = "Execution error")
          => /\ ~Val(exec_result).success
             /\ Val(exec_result).decision = None)

\* validate_decision has returned for a decision of one of the operations
Validated(ops) ==
  /\ fn = "validate_decision"
  /\ returned # None
  /\ args[1].operation \in ops

InRange(x, lo, hi) == RLe(lo, x) /\ RLe(x, hi)

\* what the rules ask of the fields every buy, sell and close carries
FieldsConform(d) ==
  /\ InRange(d.target_portion_of_balance, Rat(1, 10), RInt(1))
  /\ d.leverage \in 1..50
  /\ d.time_in_force \in {"Ioc", "Gtc", "Alo"}
  /\ d.tp_execution \in {"market", "limit"}
  /\ d.sl_execution \in {"market", "limit"}

Mentions(errors, message) == \E k \in 1..Len(errors) : errors[k] = message

\* C15: for a buy or a sell validate_decision returns valid exactly when
\* the portion is in [0.1, 1.0], the leverage in [1, 50], the time in force
\* one of Ioc/Gtc/Alo, both execution modes market or limit, and a buy has
\* a max price, a sell a min price; a buy without max price is invalid
\* with the max-price message; is_valid is true exactly when there is no
\* error.
C15_BuySellRules ==
  Validated({"buy", "sell"}) =>
    LET d == args[1]
        r == Val(returned)
    IN  /\ r.is_valid <=>
             /\ FieldsConform(d)
             /\ d.operation = "buy" => d.max_price # None
             /\ d.operation = "sell" => d.min_price # None
        /\ (d.operation = "buy" /\ d.max_price = None) =>
             /\ ~r.is_valid
             /\ Mentions(r.errors, "max_price is required for buy operations")
        /\ r.is_valid <=> (r.errors = <<>>)

\* a buy whose only defect is the missing max price was rejected for it
C15_Witness ==
  /\ Validated({"buy"})
  /\ args[1].max_price = None
  /\ Val(returned).errors = <<"max_price is required for buy operations">>

\* the side of the position held in the decision's symbol, "" when none
HeldSide(d, positions) ==
  IF d.symbol \in DOMAIN positions THEN positions[d.symbol].side ELSE ""

\* C16: a close against a long position of its symbol without min price is
\* invalid, against a short position without max price is invalid; with no
\* position of its symbol (or no positions at all) the price bounds play
\* no part: it is valid whenever its other fields conform, whatever the
\* price bounds are.
C16_CloseRules ==
  Validated({"close"}) =>
    LET d == args[1]
        r == Val(returned)
        side == HeldSide(d, args[2])
    IN  /\ (side = "long" /\ d.min_price = None) =>
             /\ ~r.is_valid
             /\ Mentions(r.errors,
                         "min_price is required for closing LONG positions")
        /\ (side = "short" /\ d.max_price = None) =>
             /\ ~r.is_valid
             /\ Mentions(r.errors,
                         "max_price is required for closing SHORT positions")
        /\ side = "" => (r.is_valid <=> FieldsConform(d))

\* a close of a long position whose only defect is the missing min price
\* was rejected for it
C16_Witness ==
  /\ Validated({"close"})
  /\ HeldSide(args[1], args[2]) = "long"
  /\ args[1].max_price # None
  /\ Val(returned).errors
       = <<"min_price is required for closing LONG positions">>

\* C17: for a hold validate_decision returns valid with no errors, whatever
\* the other fields and the positions are.
C17_HoldAlwaysValid ==
  Validated({"hold"}) =>
    /\ Val(returned).is_valid
    /\ Val(returned).errors = <<>>

\* a hold that breaks every rule of the other operations, with a position
\* held, was found valid
C17_Witness ==
  /\ Validated({"hold"})
  /\ Val(returned).is_valid
  /\ args[1].leverage = 51
  /\ args[1].target_portion_of_balance = Rat(11, 10)
  /\ args[1].max_price = None
  /\ args[1].min_price = None
  /\ args[1].time_in_force = "Fok"
  /\ args[1].tp_execution = "stop"
  /\ args[1].sl_execution = "stop"
  /\ HeldSide(args[1], args[2]) = "long"

\* the entries of a log that are closes, by position
Closes(tr) == {k \in 1..Len(tr) : tr[k].action = "close"}

\* the sum of the P&L of the closes among the first n entries
RECURSIVE ClosedPnl(_, _)
ClosedPnl(tr, n) ==
  IF n = 0 THEN RZero
  ELSE IF tr[n].action = "close" THEN RAdd(ClosedPnl(tr, n - 1), tr[n].pnl)
  ELSE ClosedPnl(tr, n - 1)

\* C18: the metrics agree with the trade log: total_trades is the number
\* of closes, winning_trades the closes with P&L > 0, losing_trades those
\* with P&L <= 0, together all of them; win_rate is winning_trades over
\* total_trades, 0 without closes; total_pnl is the sum of the closes' P&L.
C18_MetricsAgree ==
  (fn = "_calculate_metrics" /\ returned # None) =>
    LET tr == args[1]
        r == Val(returned)
        wins == {k \in Closes(tr) : RLt(RZero, tr[k].pnl)}
        losses == {k \in Closes(tr) : RLe(tr[k].pnl, RZero)}
    IN  /\ r.total_trades = Cardinality(Closes(tr))
        /\ r.winning_trades = Cardinality(wins)
        /\ r.losing_trades = Cardinality(losses)
        /\ r.winning_trades + r.losing_trades = r.total_trades
        /\ IF r.total_trades = 0 THEN r.win_rate = RZero
           ELSE RMul(r.win_rate, RInt(r.total_trades)) = RInt(r.winning_trades)
        /\ r.total_pnl = ClosedPnl(tr, Len(tr))
        /\ r.trades = tr

\* the metrics of a log with an open, a winning and a losing close
C18_Witness ==
  /\ fn = "_calculate_metrics"
  /\ returned # None
  /\ Len(args[1]) = 3
  /\ Val(returned).total_trades = 2
  /\ Val(returned).winning_trades = 1
  /\ Val(returned).losing_trades = 1
  /\ Val(returned).win_rate = Rat(1, 2)
  /\ Val(returned).total_pnl = RInt(1)

\* the forbidden occurrences of a tree: <<k, j>> for the j-th name of the
\* Import at k, <<k, 0>> for an ImportFrom or a Call at k
ForbiddenImports(nodes) ==
  {<<k, j>> \in (1..Len(nodes)) \X (1..3) :
     /\ nodes[k].kind = "Import"
     /\ j <= Len(nodes[k].names)
     /\ nodes[k].names[j][1] \in FORBIDDEN_IMPORTS}
  \cup {<<k, 0>> : k \in {n \in 1..Len(nodes) :
                            /\ nodes[n].kind = "ImportFrom"
                            /\ nodes[n].module # None
                            /\ nodes[n].module[1] \in FORBIDDEN_IMPORTS}}

ForbiddenCalls(nodes) ==
  {k \in 1..Len(nodes) :
     /\ nodes[k].kind = "Call"
     /\ nodes[k].func # None
     /\ Val(nodes[k].func) \in FORBIDDEN_FUNCTIONS}

\* the name a forbidden import occurrence is reported with
ImportName(nodes, o) ==
  IF o[2] = 0 THEN nodes[o[1]].module ELSE nodes[o[1]].names[o[2]]

\* the errors that start with a text
ErrorsOf(errors, text) == {k \in 1..Len(errors) : errors[k][1] = text}

TemplateTexts ==
  {"No class definition found",
   "Strategy class must have 'should_trade' method",
   "should_trade must accept 'data' parameter"}

IsTemplateError(e) == e[1] \in TemplateTexts

TemplateErrors(errors) == SelectSeq(errors, IsTemplateError)

HasClass(nodes) == \E k \in 1..Len(nodes) : nodes[k].kind = "ClassDef"

\* the tree has a class with a should_trade method
HasStrategy(nodes) ==
  \E k \in 1..Len(nodes) :
    /\ nodes[k].kind = "ClassDef"
    /\ "should_trade" \in MethodNames(nodes[k])

\* C19: for a source that parses, the validator reports every forbidden
\* import and every forbidden call of the tree, one error each, after the
\* first hit too, together with the template errors; is_valid is true
\* exactly when there is no error; a missing init hook adds a warning and
\* no error.
C19_AllOccurrencesReported ==
  (/\ fn = "validate_strategy_code"
   /\ returned # None
   /\ args[1].syntax_ok) =>
    LET nodes == args[1].nodes
        r == Val(returned)
    IN  /\ Cardinality(ErrorsOf(r.errors, "Forbidden import"))
             = Cardinality(ForbiddenImports(nodes))
        /\ \A o \in ForbiddenImports(nodes) :
             Mentions(r.errors, <<"Forbidden import">> \o ImportName(nodes, o))
        /\ Cardinality(ErrorsOf(r.errors, "Forbidden function"))
             = Cardinality(ForbiddenCalls(nodes))
        /\ \A k \in ForbiddenCalls(nodes) :
             Mentions(r.errors, <<"Forbidden function", Val(nodes[k].func)>>)
        /\ \A k \in 1..Len(r.errors) :
             r.errors[k][1] \in
               {"Forbidden import", "Forbidden function"} \cup TemplateTexts
        /\ IF ~HasClass(nodes) THEN
             TemplateErrors(r.errors) = << <<"No class definition found">> >>
           ELSE IF ~HasStrategy(nodes) THEN
             TemplateErrors(r.errors)
               = << <<"Strategy class must have 'should_trade' method">> >>
           ELSE
             \A k \in 1..Len(TemplateErrors(r.errors)) :
               TemplateErrors(r.errors)[k]
                 = <<"should_trade must accept 'data' parameter">>
        /\ r.is_valid <=> (r.errors = <<>>)
        /\ \A k \in 1..Len(r.warnings) :
             r.warnings[k] = <<"Consider adding 'init' method">>

\* two forbidden imports of one statement and a forbidden call were all
\* reported, and the class without init added a warning and no error
C19_Witness ==
  /\ fn = "validate_strategy_code"
  /\ returned # None
  /\ args[1].syntax_ok
  /\ Len(args[1].nodes) = 3
  /\ args[1].nodes[3] = StrategyClass(FALSE)
  /\ Val(returned).errors =
       << <<"Forbidden import", "os">>, <<"Forbidden import", "sys", "path">>,
          <<"Forbidden function", "eval">> >>
  /\ Val(returned).warnings = << <<"Consider adding 'init' method">> >>
  /\ ~Val(returned).is_valid

\* a decision that does not match the position state: a buy or a sell with
\* a position open, a close with none, a hold
Mismatched(decision, pos) ==
  \/ decision.operation \in {"buy", "sell"} /\ pos # None
  \/ decision.operation = "close" /\ pos = None
  \/ decision.operation = "hold"

\* C20: a decision that does not match the position state is a no-op for
\* the bar: balance, position and trade log stay as they are, and the bar
\* only adds its equity point (and the drawdown tracking that goes with
\* it).
C20_MismatchedDecisionNoOp ==
  [][(/\ pc = "execute"
      /\ epc = "return"
      /\ Val(exec_result).success
      /\ Val(exec_result).decision # None
      /\ Mismatched(Val(Val(exec_result).decision), position))
       => /\ balance' = balance
          /\ position' = position
          /\ trades' = trades
          /\ pc' # pc =>
               /\ equity_curve' =
                    Append(equity_curve,
                           [timestamp |-> i,
                            equity |-> Equity(balance, position,
                                              RInt(closes[i]))])
               /\ RLe(peak_equity, peak_equity')
               /\ RLe(max_drawdown, max_drawdown')]_vars

\* with the position of the first bar open, the second bar's decision was
\* acted on and left it as it was
C20_Witness ==
  /\ pc = "loop"
  /\ Len(equity_curve) = 2
  /\ Len(trades) = 1
  /\ position # None
  /\ trades[1].timestamp = WarmUp
  /\ equity_curve[2].timestamp = WarmUp + 1

\* the step of run that acts on a decision returned for bar i
ActsOnDecision ==
  /\ pc = "execute"
  /\ pc' = "loop"
  /\ exec_result # None
  /\ Val(exec_result).success
  /\ Val(exec_result).decision # None

\* the step acts on a buy or a sell while no position is open
OpensPosition ==
  /\ ActsOnDecision
  /\ position = None
  /\ Lower(Val(Val(exec_result).decision).operation) \in {"buy", "sell"}

\* C21: acting on a buy or a sell with no open position at a bar with close
\* price p creates a position with entry price p whose notional size * p is
\* min(size_usd, 0.95 * balance), takes the fee size * p * fee_rate and
\* nothing else from the balance, and appends exactly one open trade, long
\* for a buy and short for a sell; no other step opens a position.
C21_OpenPosition ==
  [][/\ OpensPosition =>
          LET decision == Val(Val(exec_result).decision)
              p == RInt(closes[i])
              side == IF Lower(decision.operation) = "buy" THEN "long"
                      ELSE "short"
          IN  /\ position' # None
              /\ Val(position').entry_price = p
              /\ Val(position').side = side
              /\ RMul(Val(position').size, p) =
                   RMin(decision.size_usd, RMul(Rat(95, 100), balance))
              /\ balance' =
                   RSub(balance, RMul(RMul(Val(position').size, p), fee_rate))
              /\ Len(trades') = Len(trades) + 1
              /\ SubSeq(trades', 1, Len(trades)) = trades
              /\ trades'[Len(trades')].action = "open"
              /\ trades'[Len(trades')].side = side
              /\ trades'[Len(trades')].price = p
              /\ trades'[Len(trades')].size = Val(position').size
              /\ trades'[Len(trades')].timestamp = i
     /\ (position = None /\ position' # None) => OpensPosition]_vars

\* a short opened for the capped notional, 95% of the initial balance, the
\* balance down by the fee on that notional only
C21_Witness ==
  /\ position # None
  /\ Val(position).side = "short"
  /\ Len(trades) = 1
  /\ trades[1].action = "open"
  /\ RMul(trades[1].size, trades[1].price) =
       RMul(Rat(95, 100), initial_balance)
  /\ RLt(RMul(trades[1].size, trades[1].price), RInt(1000))
  /\ balance = RSub(initial_balance, TradeFee(trades[1]))

\* the sum of the fees of the first n entries, opens and closes
RECURSIVE FeesPaid(_, _)
FeesPaid(tr, n) ==
  IF n = 0 THEN RZero ELSE RAdd(FeesPaid(tr, n - 1), TradeFee(tr[n]))

\* the initial balance plus the P&L of the closes minus the fees of all
\* entries of the log
Accounted(tr) ==
  RSub(RAdd(initial_balance, ClosedPnl(tr, Len(tr))), FeesPaid(tr, Len(tr)))

\* C22: at every point of a run the balance is the initial balance plus the
\* P&L of the close trades of the log minus the fees, size * price *
\* fee_rate, of all its open and close trades; while no position is open
\* the last equity recorded is that amount too.
C22_Conservation ==
  /\ balance = Accounted(trades)
  /\ (position = None /\ equity_curve # <<>>) =>
       equity_curve[Len(equity_curve)].equity = Accounted(trades)
  /\ (result # None /\ Val(result).success /\ position = None
         /\ Val(result).equity_curve # <<>>) =>
       Val(result).equity_curve[Len(Val(result).equity_curve)].equity =
         Accounted(Val(result).trades)

\* a position was opened and closed at a different price: the log holds a
\* close with a P&L and two fees, no position is open, equity is recorded
C22_Witness ==
  /\ Len(trades) = 2
  /\ trades[2].action = "close"
  /\ trades[2].pnl # RZero
  /\ position = None
  /\ Len(equity_curve) = 2
  /\ balance # initial_balance
  /\ balance # RAdd(initial_balance, trades[2].pnl)

\* C23: every ExecutionResult execute returns is well-formed, whatever the
\* path (validation failure, fault, timeout, completion) and however the
\* thread and the deadline check interleave: success = true exactly when
\* decision is a Decision and error is None, and success = false exactly
\* when decision is None and error is a non-empty message.
C23_WellFormedResult ==
  exec_result # None =>
    LET r == Val(exec_result)
        isDecision == r.decision # None /\ Val(r.decision) \in RunDecisions
        isMessage == r.error # None /\ Val(r.error).kind # ""
    IN  /\ r.success <=> (isDecision /\ r.error = None)
        /\ ~r.success <=> (r.decision = None /\ isMessage)

====
